---- MODULE Spec2Model ----
(***************************************************************************)
(* Change-request lifecycle and SLA deadline sweep of the change           *)
(* management system (app/models/change_request.py,                        *)
(* app/change_requests/routes.py, app/services/sla_monitor.py).            *)
(*                                                                         *)
(* Time is counted in ticks of 12 hours, so the 24 hour warning window of  *)
(* the code (86400 s) is WarningWindow = 2 ticks and every comparison the  *)
(* code makes (before, exactly at, after the deadline; inside, exactly at, *)
(* outside the window) has a tick at which it happens.                     *)
(***************************************************************************)
EXTENDS Integers, Sequences, FiniteSets, TLC

\* ---------------------------------------------------------------- bounds
NumCRs == 2          \* change requests in the database
DeadlineAt == 3      \* the tick of an implementation deadline
MaxNotify == 2       \* sweeps stop once a CR got this many mails of a kind

MaxClock == 1        \* last tick of the clock in the lifecycle models

MaxStored == 4       \* CRs created in the numbering model

MaxDay == 1          \* last calendar day of the numbering model

MaxTime == DeadlineAt + 1
CRIds == 1..NumCRs
None == "none"        \* a null reference
NoTime == <<>>        \* a null datetime / timedelta; <<t>> is the value t

\* ------------------------------------------------------- program constants
WarningWindow == 2   \* 24 hours (86400 s) in 12-hour ticks

\* CRStatus enumeration
DRAFT == "draft"
SUBMITTED == "submitted"
PENDING_APPROVAL == "pending_approval"
APPROVED == "approved"
REJECTED == "rejected"
IN_PROGRESS == "in_progress"
IMPLEMENTED == "implemented"
CLOSED == "closed"
ROLLED_BACK == "rolled_back"

CRStatus == {DRAFT, SUBMITTED, PENDING_APPROVAL, APPROVED, REJECTED,
             IN_PROGRESS, IMPLEMENTED, CLOSED, ROLLED_BACK}

\* ------------------------------------------------------------------ actors
\* req is the requester of every CR, oth another user with the requester
\* role, adm the admin who created the project.
Users == {"req", "oth", "apr", "imp", "adm"}

\* every account of the users table: the five above, an admin who did not
\* create the project (adm2), accounts with the requester, approver and
\* implementer role that are not members of the project (xreq, xapr, ximp), a
\* member with a custom role (aud) and a member without a role (nor)
Accounts == Users \cup {"adm2", "xreq", "xapr", "ximp", "aud", "nor"}

Role == [u \in Accounts |->
           CASE u \in {"req", "oth", "xreq"} -> "requester"
             [] u \in {"apr", "xapr"} -> "approver"
             [] u \in {"imp", "ximp"} -> "implementer"
             [] u \in {"adm", "adm2"} -> "admin"
             [] u = "aud" -> "auditor"
             [] OTHER -> None]

RoleNames == {"requester", "approver", "implementer", "admin"}

default_permissions == [r \in RoleNames |->
    CASE r = "requester" ->
           {"submit_cr", "view_own_cr", "edit_own_cr", "attach_files"}
      [] r = "approver" ->
           {"submit_cr", "view_own_cr", "view_all_cr", "approve_cr",
            "reject_cr", "request_changes"}
      [] r = "implementer" ->
           {"view_all_cr", "implement_cr", "update_implementation_status"}
      [] OTHER ->
           {"submit_cr", "view_own_cr", "view_all_cr", "edit_own_cr",
            "approve_cr", "reject_cr", "request_changes", "implement_cr",
            "rollback_cr", "manage_users", "manage_roles", "manage_system",
            "view_audit_logs", "attach_files", "update_implementation_status"}]

\* Role.has_permission: a role created without permissions (auditor) has none
role_has_permission(r, p) == r \in RoleNames /\ p \in default_permissions[r]

has_permission(u, p) == IF Role[u] = None THEN FALSE ELSE role_has_permission(Role[u], p)

is_admin(u) == Role[u] = "admin"

\* the one project of the model: its creator and its active members
ProjectCreator == "adm"
ProjectMembers == {"req", "oth", "apr", "imp", "aud", "nor"}

has_project_access(u) == is_admin(u) \/ u \in ProjectMembers

Requester == [c \in CRIds |-> "req"]

TimeZones == {"naive", "aware"}

VARIABLES
    crs,         \* the change_requests table: CR id -> committed row
    now,         \* the clock, in ticks
    warnSent,    \* CR id -> SLA warning notifications accepted by the gateway
    breachSent,  \* CR id -> SLA breach notifications accepted by the gateway
    sweepRes     \* what the last step was: <<"ok", 0>> a sweep that completed,
                 \* <<"err", c>> a sweep that aborted while processing CR c,
                 \* <<"raise", 0>> a sweep that raised to its caller,
                 \* <<"none", 0>> anything else

VARIABLES
    ent,         \* one change request with every column (lifecycle models)
    call,        \* the last method called on ent and how far the calls since
                 \* creation follow the submit..close sequence
    out          \* what the last request handler did besides writing ent

VARIABLES
    deleted,     \* the accounts whose users row was deleted
    numbers,     \* the cr_number column of the committed rows, in insert order
    held,        \* per create() request in flight: the number it generated
    today,       \* the calendar day (UTC) of the clock
    sess         \* per execution of the sweep: its position and its session

vars == <<crs, now, warnSent, breachSent, sweepRes, ent, call, out,
          deleted, numbers, held, today, sess>>

\* the workers that serve create() requests, and the executions of the sweep
\* that run inside an application context (POST /admin/trigger-sla-check)
Callers == {"w1", "w2"}
Jobs == {"t1", "t2"}

NoNumber == <<>>
IdleJob == [pc |-> "idle", todo |-> <<>>, objs |-> <<>>]

\* the state of the parts a specification does not exercise
others == <<deleted, numbers, held, today, sess>>

AccountsIdle == deleted = {}
NumbersIdle == numbers = <<>> /\ held = [p \in Callers |-> NoNumber] /\ today = 0
JobsIdle == sess = [j \in Jobs |-> IdleJob]

\* ------------------------------------------------------------ CR entity
\* A row of change_requests, with the columns that a guard or the sweep
\* reads: status, approver_id, implementation_deadline, is_sla_breached and
\* sla_warning_sent. The free-text columns are opaque payload, and the other
\* actor and date columns are written but never read by a guard. deadline is
\* implementation_deadline and tz the timezone kind of the datetime object
\* that column holds when the row is read.
NewCR(dl, tz) ==
    [status |-> DRAFT, approver |-> None, deadline |-> dl, tz |-> tz,
     is_sla_breached |-> FALSE, sla_warning_sent |-> FALSE]

\* A row with every column that a method of ChangeRequest writes (title,
\* description, priority and the like are payload no method touches;
\* created_at and updated_at are bookkeeping of the ORM).
ChangeRequest(requester, dl, tz) ==
    [status |-> DRAFT, requester |-> requester,
     approver |-> None, implementer |-> None,
     approved_date |-> NoTime, implementation_date |-> NoTime,
     deadline |-> dl, tz |-> tz, closed_date |-> NoTime,
     sla_deadline |-> NoTime, is_sla_breached |-> FALSE, sla_warning_sent |-> FALSE,
     rollback_reason |-> None, rolled_back_at |-> NoTime, rolled_back_by |-> None,
     approval_comments |-> None, rejection_reason |-> None,
     closure_comments |-> None, closure_notes |-> None, closed_by |-> None,
     submitted_at |-> NoTime]

\* Attribute assignment. ent carries every column; a row of the table crs
\* carries the columns of NewCR only, and an assignment to a column that a
\* row does not carry is not recorded in it.
Assign(cr, upd) ==
    [f \in DOMAIN cr |-> IF f \in DOMAIN upd THEN upd[f] ELSE cr[f]]

\* datetime.now(timezone.utc).replace(hour=23, minute=59, second=59): the
\* second 12-hour tick of the current day
EndOfDay(t) == 2 * (t \div 2) + 1

can_edit_noRejected(cr, requester, u) ==
    IF cr.status \in {APPROVED, IMPLEMENTED, CLOSED, ROLLED_BACK} THEN FALSE
    ELSE IF requester = u THEN TRUE
    ELSE IF has_permission(u, "manage_system") THEN TRUE
    ELSE FALSE

can_edit(cr, requester, u) ==
    IF cr.status \in {APPROVED, IMPLEMENTED, CLOSED, REJECTED, ROLLED_BACK} THEN FALSE
    ELSE IF requester = u THEN TRUE
    ELSE IF has_permission(u, "manage_system") THEN TRUE
    ELSE FALSE

can_approve_permissionOnly(cr, u) == has_permission(u, "approve_cr")

can_approve(cr, u) == has_permission(u, "approve_cr") /\ cr.status = PENDING_APPROVAL

\* an implementer who is given every CR of the project, whatever its status
can_access_cr_implementerAll(cr, requester, u) ==
    IF Role[u] = "admin" THEN ProjectCreator = u
    ELSE IF ~has_project_access(u) THEN FALSE
    ELSE IF Role[u] = "requester" THEN requester = u
    ELSE IF Role[u] = "implementer" THEN TRUE
    ELSE IF Role[u] = "approver" THEN TRUE
    ELSE FALSE

can_access_cr(cr, requester, u) ==
    IF Role[u] = "admin" THEN ProjectCreator = u
    ELSE IF ~has_project_access(u) THEN FALSE
    ELSE IF Role[u] = "requester" THEN requester = u
    ELSE IF Role[u] = "implementer"
         THEN cr.status \in {APPROVED, IN_PROGRESS, IMPLEMENTED, CLOSED, ROLLED_BACK}
    ELSE IF Role[u] = "approver" THEN TRUE
    ELSE FALSE

submit(cr, t) ==
    IF cr.status = DRAFT
    THEN Assign(cr, [status |-> PENDING_APPROVAL, submitted_at |-> <<t>>,
                     sla_deadline |-> <<EndOfDay(t)>>])
    ELSE cr

approve(cr, approver, comments, t) ==
    Assign(cr, [status |-> APPROVED, approver |-> approver,
                approved_date |-> <<t>>, approval_comments |-> comments])

reject(cr, approver, reason, t) ==
    Assign(cr, [status |-> REJECTED, approver |-> approver,
                approved_date |-> <<t>>, rejection_reason |-> reason])

\* a start that does not record who implements
start_implementation_noImplementer(cr, implementer, t) ==
    Assign(cr, [status |-> IN_PROGRESS, implementation_date |-> <<t>>])

start_implementation(cr, implementer, t) ==
    Assign(cr, [status |-> IN_PROGRESS, implementer |-> implementer,
                implementation_date |-> <<t>>])

complete_implementation(cr) == Assign(cr, [status |-> IMPLEMENTED])

close(cr, user, comments, notes, t) ==
    Assign(cr, [status |-> CLOSED, closed_date |-> <<t>>, closed_by |-> user,
                closure_comments |-> comments, closure_notes |-> notes])

rollback(cr, user, reason, t) ==
    Assign(cr, [status |-> ROLLED_BACK, rolled_back_at |-> <<t>>,
                rolled_back_by |-> user, rollback_reason |-> reason])

\* ------------------------------------------------- deadline / SLA evaluator
\* datetime.now(timezone.utc) > implementation_deadline raises TypeError when
\* the deadline is timezone-naive. [raised, ret, cr]: whether the call raised,
\* what it returned, and the CR object after the call.
check_sla_breach(cr, t) ==
    IF cr.deadline /= NoTime /\ ~cr.is_sla_breached
    THEN IF cr.tz = "naive" THEN [raised |-> TRUE, ret |-> FALSE, cr |-> cr]
         ELSE IF t > cr.deadline[1]
              THEN [raised |-> FALSE, ret |-> TRUE,
                    cr |-> [cr EXCEPT !.is_sla_breached = TRUE]]
              ELSE [raised |-> FALSE, ret |-> FALSE, cr |-> cr]
    ELSE [raised |-> FALSE, ret |-> FALSE, cr |-> cr]

\* a subtraction the wrong way round: now - deadline
time_until_deadline_reversed(cr, t) ==
    IF cr.deadline /= NoTime THEN <<t - cr.deadline[1]>> ELSE NoTime

\* a naive deadline is read as UTC before the subtraction
time_until_deadline(cr, t) ==
    IF cr.deadline /= NoTime THEN <<cr.deadline[1] - t>> ELSE NoTime

\* Python truth of a timedelta-or-None: None and timedelta(0) are false
Truthy(td) == td /= NoTime /\ td[1] /= 0

is_deadline_warning_needed(cr, t) ==
    IF cr.deadline /= NoTime /\ ~cr.sla_warning_sent /\ ~cr.is_sla_breached
    THEN LET time_left == time_until_deadline(cr, t)
         IN  Truthy(time_left) /\ time_left[1] <= WarningWindow
    ELSE FALSE

\* ------------------------------------------------------- notification gateway
\* send_sla_breach_email returns without sending when there is no admin user;
\* otherwise it computes datetime.now() - implementation_deadline with a naive
\* now, which raises TypeError for a timezone-aware deadline.
send_sla_breach_email_raises(cr, admins) ==
    admins /\ cr.deadline /= NoTime /\ cr.tz = "aware"

\* ---------------------------------------------------------------- the sweep
\* A fault is what the environment does to one sweep: nothing, or an exception
\* out of the gateway call ("send") or out of db.session.commit() ("commit")
\* while the given CR is processed.
NoFault == <<0, "none">>
Faults(S) == {NoFault} \cup (S \X {"send", "commit"})

\* a status filter that also selects rolled-back CRs
active_statuses_withRolledBack == {APPROVED, IN_PROGRESS, IMPLEMENTED, ROLLED_BACK}

active_statuses == {APPROVED, IN_PROGRESS, IMPLEMENTED}

\* the ids the sweep's query returns
active_crs(db) ==
    {c \in CRIds : db[c].status \in active_statuses /\ db[c].deadline /= NoTime}

\* the orders in which the query may return them
Orders(S) ==
    {o \in [1..Cardinality(S) -> S] : \A i, j \in 1..Cardinality(S) : o[i] = o[j] => i = j}

\* Session state of one sweep: db the committed rows, mem the session's
\* objects, warn/breach the notifications the gateway accepted so far, and
\* failed the CR whose processing raised the exception that reached the
\* except clause (0: none).
commit(st) == [st EXCEPT !.db = st.mem]

session_rollback_wipesFlags(st, c) ==
    LET wiped == [d \in CRIds |->
                    [st.db[d] EXCEPT !.is_sla_breached = FALSE, !.sla_warning_sent = FALSE]]
    IN  [st EXCEPT !.failed = c, !.mem = wiped, !.db = wiped]

\* except Exception: log, db.session.rollback()
session_rollback(st, c) == [st EXCEPT !.failed = c, !.mem = st.db]

\* the body of the for loop for CR c
ProcessCR(st, c, t, fault, admins) ==
    LET cr  == st.mem[c]
        chk == check_sla_breach(cr, t)
    IN
    IF cr.status = CLOSED THEN st
    ELSE IF chk.raised THEN session_rollback(st, c)
    ELSE IF chk.ret THEN
        LET st1 == [st EXCEPT !.mem[c] = chk.cr] IN
        IF ~chk.cr.sla_warning_sent THEN
            IF send_sla_breach_email_raises(chk.cr, admins) \/ fault = <<c, "send">>
            THEN session_rollback(st1, c)
            ELSE LET st2 == [st1 EXCEPT !.mem[c].sla_warning_sent = TRUE,
                                        !.breach[c] = @ + 1]
                 IN  IF fault = <<c, "commit">> THEN session_rollback(st2, c)
                     ELSE commit(st2)
        ELSE st1
    ELSE IF is_deadline_warning_needed(cr, t) /\ ~cr.sla_warning_sent THEN
        LET time_remaining == time_until_deadline(cr, t) IN
        IF Truthy(time_remaining)
           /\ 0 < time_remaining[1] /\ time_remaining[1] <= WarningWindow
        THEN IF fault = <<c, "send">> THEN session_rollback(st, c)
             ELSE LET st2 == [st EXCEPT !.mem[c].sla_warning_sent = TRUE,
                                        !.warn[c] = @ + 1]
                  IN  IF fault = <<c, "commit">> THEN session_rollback(st2, c)
                      ELSE commit(st2)
        ELSE st
    ELSE st

RECURSIVE SweepLoop(_, _, _, _, _, _)
SweepLoop(st, order, i, t, fault, admins) ==
    IF i > Len(order) \/ st.failed /= 0 THEN st
    ELSE SweepLoop(ProcessCR(st, order[i], t, fault, admins), order, i + 1, t, fault, admins)

\* check_sla_deadlines(): load, loop, and on leaving the application context
\* the session is removed, so what was not committed is gone
check_sla_deadlines(db, warn, breach, order, t, fault, admins) ==
    SweepLoop([db |-> db, mem |-> db, warn |-> warn, breach |-> breach, failed |-> 0],
              order, 1, t, fault, admins)

\* -------------------------------------------------------------- the system
\* create(): every CR was created by req, as a draft or submitted at once,
\* with or without an implementation deadline
CreatedCRs ==
    LET drafts == {NewCR(NoTime, "naive")}
                  \cup {NewCR(<<DeadlineAt>>, tz) : tz \in TimeZones}
    IN  drafts \cup {submit(cr, 0) : cr \in drafts}

\* the lifecycle variables while the table crs is the subject
NoCall == [op |-> "new", step |-> 0]
NoOut == [op |-> "none", notified |-> 0, audited |-> 0, raised |-> FALSE, failed |-> "none"]

LifecycleIdle ==
    /\ ent = ChangeRequest("req", NoTime, "naive")
    /\ call = NoCall
    /\ out = NoOut

Init ==
    /\ crs \in [CRIds -> CreatedCRs]
    /\ now = 0
    /\ warnSent = [c \in CRIds |-> 0]
    /\ breachSent = [c \in CRIds |-> 0]
    /\ sweepRes = <<"none", 0>>
    /\ LifecycleIdle
    /\ AccountsIdle /\ NumbersIdle /\ JobsIdle

\* what every request handler leaves alone
RequestFrame ==
    /\ sweepRes' = <<"none", 0>>
    /\ UNCHANGED <<now, warnSent, breachSent, ent, call, out, others>>

\* POST /<cr_id>/edit: the form fields are replaced (opaque payload, not in
\* the state) and the CR is submitted if the form asks for it
route_edit(u, c, submit_for_approval) ==
    /\ can_access_cr(crs[c], Requester[c], u)
    /\ can_edit(crs[c], Requester[c], u)
    /\ crs' = [crs EXCEPT ![c] =
                 IF submit_for_approval /\ crs[c].status = DRAFT
                 THEN submit(crs[c], now) ELSE crs[c]]
    /\ RequestFrame

\* POST /<cr_id>/approve; a reject without a reason changes nothing. The
\* texts of the forms go to columns that rows of crs do not carry.
FormText == "a"

route_approve(u, c, decision) ==
    /\ has_permission(u, "approve_cr")
    /\ can_approve(crs[c], u)
    /\ crs' = [crs EXCEPT ![c] =
                 IF decision = "approve" THEN approve(crs[c], u, FormText, now)
                 ELSE reject(crs[c], u, FormText, now)]
    /\ RequestFrame

\* POST /<cr_id>/rollback
route_rollback(u, c) ==
    /\ has_permission(u, "rollback_cr")
    /\ crs' = [crs EXCEPT ![c] = rollback(crs[c], u, FormText, now)]
    /\ RequestFrame

\* POST /<cr_id>/implement with action start or mark_implemented
route_implement(u, c, action) ==
    /\ has_permission(u, "implement_cr")
    /\ is_admin(u) \/ has_project_access(u)
    /\ crs[c].status \in {APPROVED, IN_PROGRESS}
    /\ \/ /\ action = "start"
          /\ crs[c].status = APPROVED
          /\ crs' = [crs EXCEPT ![c] = start_implementation(crs[c], u, now)]
       \/ /\ action = "mark_implemented"
          /\ crs' = [crs EXCEPT ![c] = complete_implementation(crs[c])]
    /\ RequestFrame

\* POST /<cr_id>/close
route_close_cr(u, c) ==
    /\ has_permission(u, "approve_cr")
    /\ crs[c].status = IMPLEMENTED
    /\ ~(crs[c].approver /= u /\ ~has_permission(u, "manage_users"))
    /\ crs' = [crs EXCEPT ![c] = close(crs[c], u, FormText, FormText, now)]
    /\ RequestFrame

\* one run of the sweep inside an application context
\* (POST /admin/trigger-sla-check, or a caller that pushed a context)
Sweep(order, fault, admins) ==
    /\ \A c \in CRIds : warnSent[c] < MaxNotify /\ breachSent[c] < MaxNotify
    /\ LET st == check_sla_deadlines(crs, warnSent, breachSent, order, now, fault, admins)
       IN  /\ crs' = st.db
           /\ warnSent' = st.warn
           /\ breachSent' = st.breach
           /\ sweepRes' = IF st.failed /= 0 THEN <<"err", st.failed>> ELSE <<"ok", 0>>
    /\ UNCHANGED <<now, ent, call, out, others>>

\* The job of the BackgroundScheduler: lambda: check_sla_deadlines(), run in
\* the scheduler's worker thread, where no application context is active.
\* current_app.app_context() is evaluated before the try statement is entered
\* and raises RuntimeError (working outside of application context), so the
\* call raises to the scheduler without having read or written anything.
ScheduledJob ==
    /\ sweepRes' = <<"raise", 0>>
    /\ UNCHANGED <<crs, now, warnSent, breachSent, ent, call, out, others>>

\* the clock advances by 12 hours
Tick ==
    /\ now < MaxTime
    /\ now' = now + 1
    /\ sweepRes' = <<"none", 0>>
    /\ UNCHANGED <<crs, warnSent, breachSent, ent, call, out, others>>

Edit == \E u \in Users, c \in CRIds, s \in BOOLEAN : route_edit(u, c, s)
Approve == \E u \in Users, c \in CRIds, d \in {"approve", "reject"} : route_approve(u, c, d)
Rollback == \E u \in Users, c \in CRIds : route_rollback(u, c)
Implement == \E u \in Users, c \in CRIds, a \in {"start", "mark_implemented"} :
                 route_implement(u, c, a)
CloseCr == \E u \in Users, c \in CRIds : route_close_cr(u, c)
RunSweep == \E order \in Orders(active_crs(crs)), fault \in Faults(active_crs(crs)),
                 admins \in BOOLEAN :
                Sweep(order, fault, admins)

Next ==
    \/ Edit
    \/ Approve
    \/ Rollback
    \/ Implement
    \/ CloseCr
    \/ RunSweep
    \/ ScheduledJob
    \/ Tick

Spec == Init /\ [][Next]_vars

\* ------------------------------------------------- the entity on its own
\* The methods of ChangeRequest called directly on one CR, as the unit tests
\* do: any method, in any status, at the current time. call.step counts how
\* many calls of the sequence submit, approve(approver),
\* start_implementation(implementer), complete_implementation(),
\* close(approver) have been made since creation, with nothing else in
\* between; -1 once a call left that sequence.
EntityActors == {"apr", "imp"}

HappyPath == <<"submit", "approve", "start_implementation",
               "complete_implementation", "close">>
HappyActor == <<None, "apr", "imp", None, "apr">>

Follow(op, actor) ==
    IF /\ call.step >= 0 /\ call.step < Len(HappyPath)
       /\ HappyPath[call.step + 1] = op
       /\ HappyActor[call.step + 1] = actor
    THEN call.step + 1
    ELSE -1

SweepIdle ==
    /\ crs = [c \in CRIds |-> NewCR(NoTime, "naive")]
    /\ warnSent = [c \in CRIds |-> 0]
    /\ breachSent = [c \in CRIds |-> 0]
    /\ sweepRes = <<"none", 0>>

InitEntity ==
    /\ SweepIdle
    /\ now = 0
    /\ ent = ChangeRequest("req", NoTime, "naive")
    /\ call = NoCall
    /\ out = NoOut
    /\ AccountsIdle /\ NumbersIdle /\ JobsIdle

EntityFrame == UNCHANGED <<crs, now, warnSent, breachSent, sweepRes, out, others>>

CallSubmit ==
    /\ ent' = submit(ent, now)
    /\ call' = [op |-> "submit", step |-> Follow("submit", None)]
    /\ EntityFrame

CallApprove ==
    \E u \in EntityActors :
        /\ ent' = approve(ent, u, FormText, now)
        /\ call' = [op |-> "approve", step |-> Follow("approve", u)]
        /\ EntityFrame

CallReject ==
    \E u \in EntityActors :
        /\ ent' = reject(ent, u, FormText, now)
        /\ call' = [op |-> "reject", step |-> Follow("reject", u)]
        /\ EntityFrame

CallStartImplementation ==
    \E u \in EntityActors :
        /\ ent' = start_implementation(ent, u, now)
        /\ call' = [op |-> "start_implementation",
                    step |-> Follow("start_implementation", u)]
        /\ EntityFrame

CallCompleteImplementation ==
    /\ ent' = complete_implementation(ent)
    /\ call' = [op |-> "complete_implementation",
                step |-> Follow("complete_implementation", None)]
    /\ EntityFrame

CallClose ==
    \E u \in EntityActors :
        /\ ent' = close(ent, u, FormText, FormText, now)
        /\ call' = [op |-> "close", step |-> Follow("close", u)]
        /\ EntityFrame

CallRollback ==
    \E u \in EntityActors :
        /\ ent' = rollback(ent, u, FormText, now)
        /\ call' = [op |-> "rollback", step |-> Follow("rollback", u)]
        /\ EntityFrame

\* the clock of the lifecycle models advances by 12 hours
EntityTick ==
    /\ now < MaxClock
    /\ now' = now + 1
    /\ call' = [call EXCEPT !.op = "tick"]
    /\ UNCHANGED <<crs, warnSent, breachSent, sweepRes, ent, out, others>>

NextEntity ==
    \/ CallSubmit
    \/ CallApprove
    \/ CallReject
    \/ CallStartImplementation
    \/ CallCompleteImplementation
    \/ CallClose
    \/ CallRollback
    \/ EntityTick

SpecEntity == InitEntity /\ [][NextEntity]_vars

\* ------------------------------------------------- the request handlers
\* The handlers of app/change_requests/routes.py as functions of the stored
\* row cr, the logged-in account u, the form and the time t. Each returns the
\* row stored when the request has ended and what the request did besides:
\* notified, the calls made to EmailService; audited, the audit rows written;
\* raised, whether the handler ended with an unhandled exception (HTTP 500);
\* failed, the dependency that failed when the handler called it.
\* A fault is what fails during one request: nothing, the audit sink
\* (log_cr_event raises) or the notification gateway (the EmailService call
\* raises).
Texts == {"", "a", "b"}
RequestFaults == {"none", "audit", "notify"}

Response(cr, op, notified, audited, raised, failed) ==
    [cr |-> cr,
     out |-> [op |-> op, notified |-> notified, audited |-> audited,
              raised |-> raised, failed |-> failed]]

\* the handler has committed mem and logs the audit event; unless that
\* raises, it then makes n calls to EmailService inside try/except
Committed(mem, op, n, fault) ==
    IF fault = "audit" THEN Response(mem, op, 0, 0, TRUE, "audit")
    ELSE Response(mem, op, n, 1, FALSE, IF fault = "notify" /\ n > 0 THEN "notify" ELSE "none")

\* a request that is turned away by the handler: nothing written or emitted
Refused(cr, op) == Response(cr, op, 0, 0, FALSE, "none")

\* a request that permission_required turns away: a permission_denied audit
\* event is written
Denied(cr, op) == Response(cr, op, 0, 1, FALSE, "none")

\* the members of the project with the implementer role
implementers == {u \in ProjectMembers : Role[u] = "implementer"}

\* POST /<cr_id>/edit. The row is committed before the audit event is logged.
edit_request(cr, u, submit_for_approval, t, fault) ==
    IF ~can_access_cr(cr, cr.requester, u) THEN Refused(cr, "edit")
    ELSE IF ~can_edit(cr, cr.requester, u) THEN Refused(cr, "edit")
    ELSE LET mem == IF submit_for_approval /\ cr.status = DRAFT THEN submit(cr, t) ELSE cr
         IN  Committed(mem, "edit", 0, fault)

\* POST /<cr_id>/approve. The first commit of the request is the one inside
\* log_cr_event: when that call raises, the handler has no except clause, the
\* request ends with the exception and the session is discarded with the
\* decision in it. An exception out of the EmailService call is caught.
approve_request(cr, u, decision, comments, t, fault) ==
    IF ~has_permission(u, "approve_cr") THEN Denied(cr, "approve")
    ELSE IF ~can_approve(cr, u) THEN Refused(cr, "approve")
    ELSE IF decision = "approve" THEN
        IF fault = "audit" THEN Response(cr, "approve", 0, 0, TRUE, "audit")
        ELSE Response(approve(cr, u, comments, t), "approve",
                      IF implementers /= {} THEN 1 ELSE 0, 1, FALSE,
                      IF fault = "notify" /\ implementers /= {} THEN "notify" ELSE "none")
    ELSE IF comments = "" THEN Refused(cr, "reject")
    ELSE IF fault = "audit" THEN Response(cr, "reject", 0, 0, TRUE, "audit")
    ELSE Response(reject(cr, u, comments, t), "reject", 1, 1, FALSE,
                  IF fault = "notify" THEN "notify" ELSE "none")

\* POST /<cr_id>/rollback: the form needs a reason; commit, then audit; no
\* call to EmailService
rollback_request(cr, u, reason, t, fault) ==
    IF ~has_permission(u, "rollback_cr") THEN Denied(cr, "rollback")
    ELSE IF reason = "" THEN Refused(cr, "rollback")
    ELSE Committed(rollback(cr, u, reason, t), "rollback", 0, fault)

\* POST /<cr_id>/implement: commit, then audit, then (mark_implemented) the
\* notification of the approver
implement_request(cr, u, action, t, fault) ==
    IF ~has_permission(u, "implement_cr") THEN Denied(cr, action)
    ELSE IF ~is_admin(u) /\ ~has_project_access(u) THEN Refused(cr, action)
    ELSE IF cr.status \notin {APPROVED, IN_PROGRESS} THEN Refused(cr, action)
    ELSE IF action = "start" THEN
        IF cr.status = APPROVED
        THEN Committed(start_implementation(cr, u, t), action, 0, fault)
        ELSE Refused(cr, action)
    ELSE LET mem == complete_implementation(cr)
         IN  Committed(mem, action, IF mem.approver /= None THEN 1 ELSE 0, fault)

\* POST /<cr_id>/close: the form needs closure notes; the handler passes
\* closure_notes and comments to close(user, comments, notes) by position;
\* commit, then audit, then the timeline mail, inside a try whose except
\* clause rolls back and reports an error
close_cr_request(cr, u, closure_notes, comments, t, fault) ==
    IF ~has_permission(u, "approve_cr") THEN Denied(cr, "close")
    ELSE IF cr.status /= IMPLEMENTED THEN Refused(cr, "close")
    ELSE IF cr.approver /= u /\ ~has_permission(u, "manage_users") THEN Refused(cr, "close")
    ELSE IF closure_notes = "" THEN Refused(cr, "close")
    ELSE LET mem == close(cr, u, closure_notes, comments, t)
         IN  IF fault = "audit" THEN Response(mem, "close", 0, 0, FALSE, "audit")
             ELSE Response(mem, "close", 1, 1, FALSE,
                           IF fault = "notify" THEN "notify" ELSE "none")

InitRequests ==
    /\ SweepIdle
    /\ now = 0
    /\ ent \in {ChangeRequest("req", NoTime, "naive"),
                submit(ChangeRequest("req", NoTime, "naive"), 0)}
    /\ call = NoCall
    /\ out = NoOut
    /\ AccountsIdle /\ NumbersIdle /\ JobsIdle

Answer(r) ==
    /\ ent' = r.cr
    /\ out' = r.out
    /\ UNCHANGED <<crs, now, warnSent, breachSent, sweepRes, call, others>>

EditRequest ==
    \E u \in Users, s \in BOOLEAN, f \in RequestFaults :
        Answer(edit_request(ent, u, s, now, f))

ApproveRequest ==
    \E u \in Users, d \in {"approve", "reject"}, txt \in Texts, f \in RequestFaults :
        Answer(approve_request(ent, u, d, txt, now, f))

RollbackRequest ==
    \E u \in Users, txt \in Texts, f \in RequestFaults :
        Answer(rollback_request(ent, u, txt, now, f))

ImplementRequest ==
    \E u \in Users, a \in {"start", "mark_implemented"}, f \in RequestFaults :
        Answer(implement_request(ent, u, a, now, f))

CloseCrRequest ==
    \E u \in Users, notes \in Texts, txt \in Texts, f \in RequestFaults :
        Answer(close_cr_request(ent, u, notes, txt, now, f))

RequestTick ==
    /\ now < MaxClock
    /\ now' = now + 1
    /\ out' = NoOut
    /\ UNCHANGED <<crs, warnSent, breachSent, sweepRes, ent, call, others>>

NextRequests ==
    \/ EditRequest
    \/ ApproveRequest
    \/ RollbackRequest
    \/ ImplementRequest
    \/ CloseCrRequest
    \/ RequestTick

SpecRequests == InitRequests /\ [][NextRequests]_vars

\* ------------------------------------------------- administrative requests
\* Query.update(values): an UPDATE of the given columns of the matching rows;
\* no method of the entity runs
query_update(cr, values) == Assign(cr, values)

AutoClosed == "auto_closed"

\* POST /admin/projects/<id>/delete: admin_required, the admin's password,
\* then every CR of the project is set to Closed, the project and its
\* memberships are deactivated, and the session is committed
delete_project_request(cr, u, password_ok) ==
    IF ~is_admin(u) THEN Refused(cr, "delete_project")
    ELSE IF ~password_ok THEN Refused(cr, "delete_project")
    ELSE Response(query_update(cr, [status |-> CLOSED, rejection_reason |-> AutoClosed]),
                  "delete_project", 0, 0, FALSE, "none")

\* whether db.session.delete(user) and the commit after it go through: the
\* ORM sets requester_id of the user's CRs to NULL, which the NOT NULL column
\* refuses; closed_by_id and rolled_back_by_id still point at the user, which
\* a storage that enforces foreign keys refuses
user_delete_raises(cr, target, fk_enforced) ==
    \/ cr.requester = target
    \/ fk_enforced /\ (cr.closed_by = target \/ cr.rolled_back_by = target)

\* POST /admin/users/<id>/delete: admin_required, not oneself, the admin's
\* password; the CRs the user requested are set to Closed and the user is
\* unassigned as approver and implementer; AuditLog.create_log commits
\* that; then the user row is deleted and the session committed again.
\* [cr, out, gone]: gone tells whether the users row was deleted.
delete_user_request(cr, u, target, password_ok, fault, fk_enforced) ==
    LET turned_away == Refused(cr, "delete_user") @@ [gone |-> FALSE]
        closed == IF cr.requester = target
                  THEN query_update(cr, [status |-> CLOSED, rejection_reason |-> AutoClosed])
                  ELSE cr
        unapproved == IF closed.approver = target
                      THEN query_update(closed, [approver |-> None]) ELSE closed
        mem == IF unapproved.implementer = target
               THEN query_update(unapproved, [implementer |-> None]) ELSE unapproved
    IN  IF ~is_admin(u) THEN turned_away
        ELSE IF target = u THEN turned_away
        ELSE IF ~password_ok THEN turned_away
        ELSE IF fault = "audit"
             THEN Response(cr, "delete_user", 0, 0, TRUE, "audit") @@ [gone |-> FALSE]
        ELSE IF user_delete_raises(mem, target, fk_enforced)
             THEN Response(mem, "delete_user", 0, 1, TRUE, "none") @@ [gone |-> FALSE]
        ELSE Response(mem, "delete_user", 0, 1, FALSE, "none") @@ [gone |-> TRUE]

\* a CR in each status of the lifecycle, as the entity methods leave it
LifecycleCRs ==
    LET draft == ChangeRequest("req", NoTime, "naive")
        pending == submit(draft, 0)
        approved == approve(pending, "apr", FormText, 0)
        in_progress == start_implementation(approved, "imp", 0)
        implemented == complete_implementation(in_progress)
    IN  {draft, pending, approved, in_progress, implemented,
         reject(pending, "apr", FormText, 0),
         close(implemented, "adm", FormText, FormText, 0),
         rollback(implemented, "adm", FormText, 0)}

InitAdmin ==
    /\ SweepIdle
    /\ now = 0
    /\ ent \in LifecycleCRs
    /\ call = NoCall
    /\ out = NoOut
    /\ AccountsIdle /\ NumbersIdle /\ JobsIdle

\* the accounts that send administrative requests or are deleted by one:
\* the users the CR refers to and a second admin; a deleted user cannot log in
Staff == Users \cup {"adm2"}

DeleteProjectRequest ==
    \E u \in Staff \ deleted, pw \in BOOLEAN :
        Answer(delete_project_request(ent, u, pw))

DeleteUserRequest ==
    \E u \in Staff \ deleted, target \in Staff \ deleted, pw \in BOOLEAN,
       f \in {"none", "audit"}, fk \in BOOLEAN :
        LET r == delete_user_request(ent, u, target, pw, f, fk)
        IN  /\ ent' = r.cr
            /\ out' = r.out
            /\ deleted' = IF r.gone THEN deleted \cup {target} ELSE deleted
            /\ UNCHANGED <<crs, now, warnSent, breachSent, sweepRes, call,
                           numbers, held, today, sess>>

NextAdmin ==
    \/ DeleteProjectRequest
    \/ DeleteUserRequest

SpecAdmin == InitAdmin /\ [][NextAdmin]_vars

\* ------------------------------------------------------------ CR numbers
\* f'{n:04d}': the decimal digits of n, padded with zeros to four places
Pad4(n) == <<n \div 1000, (n \div 100) % 10, (n \div 10) % 10, n % 10>>

\* f'CR-{today}-{n:04d}' as the date followed by the digits
cr_number(day, n) == <<day>> \o Pad4(n)

\* cr_number.like(f'CR-{today}%')
like_prefix(number, day) == number[1] = day

\* query.filter(...).count() over the committed rows
count_like(rows, day) ==
    Cardinality({i \in 1..Len(rows) : like_prefix(rows[i], day)})

\* a generator that numbers from the count itself
generate_cr_number_fromCount(rows, day) == cr_number(day, count_like(rows, day))

\* a generator that counts the rows of every day
generate_cr_number_countAll(rows, day) == cr_number(day, Len(rows) + 1)

generate_cr_number(rows, day) == cr_number(day, count_like(rows, day) + 1)

\* create() up to the construction of the CR: the worker reads the date and
\* the count and holds the number it made of them
GenerateNumber(p) ==
    /\ held[p] = NoNumber
    /\ Len(numbers) < MaxStored
    /\ held' = [held EXCEPT ![p] = <<[number |-> generate_cr_number(numbers, today),
                                      count |-> count_like(numbers, today),
                                      day |-> today]>>]
    /\ UNCHANGED <<crs, now, warnSent, breachSent, sweepRes, ent, call, out,
                   deleted, numbers, today, sess>>

\* create() from db.session.add to db.session.commit: the row is inserted
\* unless the unique index on cr_number refuses it, which ends the request
StoreCR(p) ==
    /\ held[p] /= NoNumber
    /\ numbers' = IF \E i \in 1..Len(numbers) : numbers[i] = held[p][1].number
                  THEN numbers
                  ELSE Append(numbers, held[p][1].number)
    /\ held' = [held EXCEPT ![p] = NoNumber]
    /\ UNCHANGED <<crs, now, warnSent, breachSent, sweepRes, ent, call, out,
                   deleted, today, sess>>

\* create() for a high-risk change without rollback plan: the handler
\* returns the form again and the CR it built is dropped
DiscardCR(p) ==
    /\ held[p] /= NoNumber
    /\ held' = [held EXCEPT ![p] = NoNumber]
    /\ UNCHANGED <<crs, now, warnSent, breachSent, sweepRes, ent, call, out,
                   deleted, numbers, today, sess>>

\* midnight UTC
NextDay ==
    /\ today < MaxDay
    /\ today' = today + 1
    /\ UNCHANGED <<crs, now, warnSent, breachSent, sweepRes, ent, call, out,
                   deleted, numbers, held, sess>>

InitNumbers ==
    /\ SweepIdle
    /\ now = 0
    /\ LifecycleIdle
    /\ AccountsIdle /\ NumbersIdle /\ JobsIdle

Generate == \E p \in Callers : GenerateNumber(p)
Store == \E p \in Callers : StoreCR(p)
Discard == \E p \in Callers : DiscardCR(p)

NextNumbers ==
    \/ Generate
    \/ Store
    \/ Discard
    \/ NextDay

SpecNumbers == InitNumbers /\ [][NextNumbers]_vars

\* -------------------------------------------------- sweeps at an interval
\* The sweep runs at an interval shorter than a tick of the clock
\* (IntervalTrigger(minutes=10)): the clock reaches the next tick only after
\* a sweep, and the case under study is that this sweep completed without
\* error.
TickAfterSweep == sweepRes = <<"ok", 0>> /\ Tick

\* a sweep that the gateway and the storage do not fail; what the code
\* itself raises still ends it in the except clause
RunSweepNoFault ==
    \E order \in Orders(active_crs(crs)), admins \in BOOLEAN :
        Sweep(order, NoFault, admins)

\* CRs that were approved more than 24h before their deadline
ApprovedCRs ==
    {approve(submit(NewCR(<<DeadlineAt>>, tz), 0), "apr", FormText, 0) : tz \in TimeZones}

InitLive ==
    /\ crs \in [CRIds -> ApprovedCRs]
    /\ now = 0
    /\ warnSent = [c \in CRIds |-> 0]
    /\ breachSent = [c \in CRIds |-> 0]
    /\ sweepRes = <<"none", 0>>
    /\ LifecycleIdle
    /\ AccountsIdle /\ NumbersIdle /\ JobsIdle

NextLive ==
    \/ Rollback
    \/ Implement
    \/ CloseCr
    \/ RunSweepNoFault
    \/ ScheduledJob
    \/ TickAfterSweep

\* the trigger keeps firing the sweep, and time passes whatever the requests
\* in between
SpecLive ==
    InitLive /\ [][NextLive]_vars /\ WF_vars(RunSweepNoFault) /\ SF_vars(TickAfterSweep)

\* ------------------------------------------- sweeps running concurrently
\* CRs the sweep looks at: approved or implemented, with an aware deadline
TrackedCRs ==
    LET approved == approve(submit(NewCR(<<DeadlineAt>>, "aware"), 0), "apr", FormText, 0)
    IN  {approved, complete_implementation(approved)}

\* the session's objects: <<>> for a row that is not loaded (never queried,
\* or expired by a commit), <<row>> for a loaded one
Loaded(db, S) == [d \in CRIds |-> IF d \in S THEN <<db[d]>> ELSE <<>>]
Expired == [d \in CRIds |-> <<>>]

\* what the session sees of each row: the loaded object, or the committed
\* row, which an attribute access loads
View(db, objs) == [d \in CRIds |-> IF objs[d] = <<>> THEN db[d] ELSE objs[d][1]]

\* db.session.commit(): an UPDATE per changed object that sets the columns
\* the session changed. The sweep changes is_sla_breached and
\* sla_warning_sent only, and only from false to true.
flush(db, objs) ==
    [d \in CRIds |->
        IF objs[d] = <<>> THEN db[d]
        ELSE [db[d] EXCEPT !.is_sla_breached = @ \/ objs[d][1].is_sla_breached,
                           !.sla_warning_sent = @ \/ objs[d][1].sla_warning_sent]]

\* check_sla_deadlines() up to the end of the query: the active CRs are loaded
StartSweep(j, order) ==
    /\ sess[j].pc = "idle"
    /\ \A c \in CRIds : warnSent[c] < MaxNotify /\ breachSent[c] < MaxNotify
    /\ sess' = [sess EXCEPT ![j] = [pc |-> "loop", todo |-> order,
                                    objs |-> Loaded(crs, active_crs(crs))]]
    /\ UNCHANGED <<crs, now, warnSent, breachSent, sweepRes, ent, call, out,
                   deleted, numbers, held, today>>

\* one pass of the for loop, for the next CR of the query result. A commit
\* expires every object of the session; an exception ends the execution in
\* the except clause, and so does the end of the list; the session is
\* removed with the application context.
SweepStep(j, admins) ==
    /\ sess[j].pc = "loop"
    /\ LET c == Head(sess[j].todo)
           mem == View(crs, sess[j].objs)
           st == ProcessCR([db |-> mem, mem |-> mem, warn |-> warnSent,
                            breach |-> breachSent, failed |-> 0],
                           c, now, NoFault, admins)
           committed == st.warn /= warnSent \/ st.breach /= breachSent
           touched == [sess[j].objs EXCEPT ![c] = <<st.mem[c]>>]
       IN  /\ warnSent' = st.warn
           /\ breachSent' = st.breach
           /\ crs' = IF committed THEN flush(crs, touched) ELSE crs
           /\ sess' = [sess EXCEPT ![j] =
                         IF st.failed /= 0 \/ Len(sess[j].todo) = 1 THEN IdleJob
                         ELSE [pc |-> "loop", todo |-> Tail(sess[j].todo),
                               objs |-> IF committed THEN Expired ELSE touched]]
    /\ UNCHANGED <<now, sweepRes, ent, call, out, deleted, numbers, held, today>>

InitConcurrent ==
    /\ crs \in [CRIds -> TrackedCRs]
    /\ now = 0
    /\ warnSent = [c \in CRIds |-> 0]
    /\ breachSent = [c \in CRIds |-> 0]
    /\ sweepRes = <<"none", 0>>
    /\ LifecycleIdle
    /\ AccountsIdle /\ NumbersIdle /\ JobsIdle

LoadCRs == \E j \in Jobs, order \in Orders(active_crs(crs)) :
               active_crs(crs) /= {} /\ StartSweep(j, order)
ProcessNext == \E j \in Jobs, admins \in BOOLEAN : SweepStep(j, admins)

\* rollback requests as the CR page offers them, for a CR that is
\* implemented or closed
RollbackDeployed ==
    \E u \in Users, c \in CRIds :
        crs[c].status \in {IMPLEMENTED, CLOSED} /\ route_rollback(u, c)

\* an execution of the sweep lasts less than a tick of the clock
TickBetweenSweeps == (\A j \in Jobs : sess[j].pc = "idle") /\ Tick

NextConcurrent ==
    \/ LoadCRs
    \/ ProcessNext
    \/ CloseCr
    \/ RollbackDeployed
    \/ TickBetweenSweeps

SpecConcurrent == InitConcurrent /\ [][NextConcurrent]_vars

TypeOK ==
    /\ \A c \in CRIds : crs[c].status \in CRStatus
    /\ now \in 0..MaxTime
    /\ sweepRes \in {<<"none", 0>>, <<"ok", 0>>, <<"raise", 0>>} \cup ({"err"} \X CRIds)
    /\ ent.status \in CRStatus
    /\ call.step \in -1..Len(HappyPath)
    /\ out.notified \in 0..1 /\ out.audited \in 0..1
    /\ out.raised \in BOOLEAN /\ out.failed \in RequestFaults

\* ------------------------------------------------------------------ claims
IsSweepStep == sweepRes' /= <<"none", 0>>

Active(cr) == cr.status \in {APPROVED, IN_PROGRESS, IMPLEMENTED} /\ cr.deadline /= NoTime

\* C1: every status change made by a change-request handler follows an edge
\* of the lifecycle graph Draft -> PendingApproval -> {Approved | Rejected},
\* Approved -> InProgress -> Implemented -> Closed, Approved -> Implemented,
\* {Implemented, Closed} -> RolledBack; the graph has no cycle, so no status
\* is re-entered, and Rejected and RolledBack have no outgoing edge.
LifecycleEdges ==
    {<<DRAFT, PENDING_APPROVAL>>, <<PENDING_APPROVAL, APPROVED>>,
     <<PENDING_APPROVAL, REJECTED>>, <<APPROVED, IN_PROGRESS>>,
     <<APPROVED, IMPLEMENTED>>, <<IN_PROGRESS, IMPLEMENTED>>,
     <<IMPLEMENTED, CLOSED>>, <<IMPLEMENTED, ROLLED_BACK>>, <<CLOSED, ROLLED_BACK>>}

C1_StatusFollowsGraph ==
    [][\A c \in CRIds :
         crs'[c].status /= crs[c].status
         => <<crs[c].status, crs'[c].status>> \in LifecycleEdges]_vars

C3_FrozenAfterApproval ==
    \A c \in CRIds :
        crs[c].status \in {APPROVED, IN_PROGRESS, IMPLEMENTED, CLOSED, ROLLED_BACK}
        => \A u \in Users : ~can_edit(crs[c], Requester[c], u)

\* C4: the committed flags is_sla_breached and sla_warning_sent of a CR never
\* go from true to false, whatever step is taken (sweeps that abort and roll
\* back included).
C4_FlagsMonotonic ==
    [][\A c \in CRIds :
         /\ crs[c].is_sla_breached => crs'[c].is_sla_breached
         /\ crs[c].sla_warning_sent => crs'[c].sla_warning_sent]_vars

\* a sweep has just aborted and rolled back after the warning for d went out
\* (d's flag was lost), while the committed flag of c is still true
C4_Witness ==
    \E c, d \in CRIds :
        /\ sweepRes = <<"err", d>>
        /\ crs[c].sla_warning_sent
        /\ warnSent[d] = 1
        /\ ~crs[d].sla_warning_sent

\* C5: over any number of sweeps, each notification kind is fired at most
\* once for a CR.
C5_AtMostOncePerKind ==
    \A c \in CRIds : warnSent[c] <= 1 /\ breachSent[c] <= 1

\* C6: for every CR in an active status with the one-shot flag unset and its
\* deadline before the sweep time, the sweep sets is_sla_breached, fires
\* exactly one breach notification and sets the flag; and a sweep fires no
\* notification for a CR whose flag is already set.
C6_BreachFiredOnce ==
    [][IsSweepStep =>
         \A c \in CRIds :
            /\ ( /\ Active(crs[c])
                 /\ ~crs[c].sla_warning_sent
                 /\ crs[c].deadline[1] < now )
               => /\ crs'[c].is_sla_breached
                  /\ crs'[c].sla_warning_sent
                  /\ breachSent'[c] = breachSent[c] + 1
                  /\ warnSent'[c] = warnSent[c]
            /\ crs[c].sla_warning_sent
               => /\ breachSent'[c] = breachSent[c]
                  /\ warnSent'[c] = warnSent[c]]_vars

\* C7: after a sweep that ran to completion at a time later than the deadline
\* of a CR in an active status, the committed is_sla_breached of that CR is
\* true.
C7_BreachPersisted ==
    sweepRes = <<"ok", 0>>
    => \A c \in CRIds :
          (Active(crs[c]) /\ crs[c].deadline[1] < now) => crs[c].is_sla_breached

\* C8: for an active CR with the flag unset and not breached, a sweep fires
\* exactly one warning and sets sla_warning_sent when 0 < deadline - now <= 24h,
\* and fires nothing and changes neither flag when deadline - now > 24h.
C8_WarningWindow ==
    [][IsSweepStep =>
         \A c \in CRIds :
            ( /\ Active(crs[c])
              /\ ~crs[c].sla_warning_sent
              /\ ~crs[c].is_sla_breached )
            => LET left == crs[c].deadline[1] - now
               IN  /\ (0 < left /\ left <= WarningWindow)
                      => /\ warnSent'[c] = warnSent[c] + 1
                         /\ breachSent'[c] = breachSent[c]
                         /\ crs'[c].sla_warning_sent
                   /\ left > WarningWindow
                      => /\ warnSent'[c] = warnSent[c]
                         /\ breachSent'[c] = breachSent[c]
                         /\ crs'[c] = crs[c]]_vars

\* C9: a sweep leaves the flags of every CR that is not in an active status,
\* or that has no deadline, unchanged and fires no notification for it.
C9_SweepFrame ==
    [][IsSweepStep =>
         \A c \in CRIds :
            ~Active(crs[c])
            => /\ crs'[c] = crs[c]
               /\ warnSent'[c] = warnSent[c]
               /\ breachSent'[c] = breachSent[c]]_vars

\* a sweep has just completed after the deadline of a closed CR and of a
\* draft, neither of which it flagged or notified
C9_Witness ==
    \E c, d \in CRIds :
        /\ sweepRes = <<"ok", 0>>
        /\ crs[c].status = CLOSED /\ crs[d].status = DRAFT
        /\ \A e \in {c, d} :
              /\ crs[e].deadline /= NoTime /\ crs[e].tz = "aware"
              /\ crs[e].deadline[1] < now
              /\ ~crs[e].is_sla_breached /\ ~crs[e].sla_warning_sent
              /\ warnSent[e] = 0 /\ breachSent[e] = 0

\* C10: when the processing of one CR fails during a sweep, every other CR
\* the sweep selected comes out as it would from a sweep without that
\* failure: its flags and notifications are those of a fault-free sweep over
\* that CR.
C10_FailureIsolated ==
    [][\A f \in CRIds :
         sweepRes' = <<"err", f>>
         => \A c \in active_crs(crs) \ {f} :
               \E admins \in BOOLEAN :
                  LET solo == check_sla_deadlines(crs, warnSent, breachSent, <<c>>,
                                                  now, NoFault, admins)
                  IN  /\ crs'[c] = solo.db[c]
                      /\ warnSent'[c] = solo.warn[c]
                      /\ breachSent'[c] = solo.breach[c]]_vars

\* C11: a sweep never propagates an error to its caller: whatever is raised
\* during a run is caught inside check_sla_deadlines, which returns normally.
C11_SweepNeverRaises ==
    sweepRes[1] /= "raise"

\* C12: when the sweep has decided to notify for a CR (active, one-shot flag
\* unset, deadline evaluated without error and either passed or inside the
\* warning window) and the dispatch of that notification fails, the same
\* sweep still sets and persists the CR's one-shot flag, and is_sla_breached
\* for a breach. The dispatch for c failed when the sweep ended while
\* processing c and the gateway accepted nothing for c.
NotifyDecided(cr, t) ==
    /\ Active(cr) /\ ~cr.sla_warning_sent /\ cr.tz = "aware"
    /\ (t > cr.deadline[1] \/ is_deadline_warning_needed(cr, t))

C12_FlagSetOnDecision ==
    [][\A c \in CRIds :
         ( /\ sweepRes' = <<"err", c>>
           /\ NotifyDecided(crs[c], now)
           /\ warnSent'[c] = warnSent[c] /\ breachSent'[c] = breachSent[c] )
         => /\ crs'[c].sla_warning_sent
            /\ (now > crs[c].deadline[1] => crs'[c].is_sla_breached)]_vars

\* C13: through the approval handler, an approve or reject decision changes a
\* CR only if the actor holds approve_cr and the status is PendingApproval
\* (and a reject carries a reason); the CR then has status Approved (resp.
\* Rejected), approver the actor, approved_date now and approval_comments
\* (resp. rejection_reason) the supplied text; in every other case the CR is
\* unchanged. Stated for the CR of every reachable state and every request.
Decided(cr, u, decision, txt, t) ==
    IF decision = "approve"
    THEN [cr EXCEPT !.status = APPROVED, !.approver = u,
                    !.approved_date = <<t>>, !.approval_comments = txt]
    ELSE [cr EXCEPT !.status = REJECTED, !.approver = u,
                    !.approved_date = <<t>>, !.rejection_reason = txt]

C13_ApprovalHandler ==
    \A u \in Accounts, d \in {"approve", "reject"}, txt \in Texts, f \in RequestFaults :
        LET after == approve_request(ent, u, d, txt, now, f).cr
            guard == /\ has_permission(u, "approve_cr")
                     /\ ent.status = PENDING_APPROVAL
                     /\ (d = "reject" => txt /= "")
        IN  /\ after \in {ent, Decided(ent, u, d, txt, now)}
            /\ ~guard => after = ent
            /\ (guard /\ f = "none") => after = Decided(ent, u, d, txt, now)

\* the approval handler has just approved the pending CR at tick 1, for the
\* admin, with a comment
C13_Witness ==
    /\ out.op = "approve" /\ out.audited = 1
    /\ ent.status = APPROVED /\ ent.approver = "adm"
    /\ ent.approved_date = <<1>> /\ ent.approval_comments = "b"
    /\ ent.rejection_reason = None

\* C14: from a newly created Draft CR, the calls submit, approve(approver),
\* start_implementation(implementer), complete_implementation(),
\* close(approver) move the status through PendingApproval, Approved,
\* InProgress, Implemented, Closed in that order, with submitted_at set by
\* submit, approver by approve, implementer and implementation_date by
\* start_implementation, and closed_date and closed_by by close.
HappyStatus == <<DRAFT, PENDING_APPROVAL, APPROVED, IN_PROGRESS, IMPLEMENTED, CLOSED>>

C14_HappyPath ==
    call.step >= 0 =>
        /\ ent.status = HappyStatus[call.step + 1]
        /\ (call.step >= 1) = (ent.submitted_at /= NoTime)
        /\ ent.approver = (IF call.step >= 2 THEN "apr" ELSE None)
        /\ ent.implementer = (IF call.step >= 3 THEN "imp" ELSE None)
        /\ (call.step >= 3) = (ent.implementation_date /= NoTime)
        /\ (call.step >= 5) = (ent.closed_date /= NoTime)
        /\ ent.closed_by = (IF call.step >= 5 THEN "apr" ELSE None)

\* the five calls have been made, the first at tick 0 and the last at tick 1
C14_Witness ==
    /\ call = [op |-> "close", step |-> 5]
    /\ ent.status = CLOSED
    /\ ent.submitted_at = <<0>> /\ ent.closed_date = <<1>>
    /\ ent.approver = "apr" /\ ent.implementer = "imp" /\ ent.closed_by = "apr"

\* C15: the close handler changes a CR only if its status is Implemented and
\* the actor is the CR's approver or holds manage_users (and closure notes
\* are given); the CR then has status Closed, closed_date now, closed_by the
\* actor, closure_notes the closure notes of the form and closure_comments
\* its additional comments; otherwise the CR is unchanged.
Closed(cr, u, closure_notes, comments, t) ==
    [cr EXCEPT !.status = CLOSED, !.closed_date = <<t>>, !.closed_by = u,
               !.closure_notes = closure_notes, !.closure_comments = comments]

C15_CloseHandler ==
    \A u \in Accounts, notes \in Texts, txt \in Texts, f \in RequestFaults :
        LET after == close_cr_request(ent, u, notes, txt, now, f).cr
            guard == /\ ent.status = IMPLEMENTED
                     /\ (u = ent.approver \/ has_permission(u, "manage_users"))
        IN  /\ after \in {ent, Closed(ent, u, notes, txt, now)}
            /\ ~guard => after = ent

\* C16: the rollback handler changes a CR only if the actor holds rollback_cr
\* and the status is Implemented or Closed; the CR then has status
\* RolledBack, rolled_back_at now, rolled_back_by the actor and
\* rollback_reason the reason, and nobody can edit it; a rollback request on
\* a CR in any other status leaves it unchanged.
RolledBack(cr, u, reason, t) ==
    [cr EXCEPT !.status = ROLLED_BACK, !.rolled_back_at = <<t>>,
               !.rolled_back_by = u, !.rollback_reason = reason]

C16_RollbackHandler ==
    [][(out'.op = "rollback" /\ ent' /= ent)
       => /\ ent.status \in {IMPLEMENTED, CLOSED}
          /\ has_permission(ent'.rolled_back_by, "rollback_cr")
          /\ ent' = RolledBack(ent, ent'.rolled_back_by, ent'.rollback_reason, now)
          /\ \A v \in Accounts : ~can_edit(ent', ent'.requester, v)]_vars

\* C17: a transition method of ChangeRequest called on a CR whose status does
\* not satisfy the status guard of that transition leaves every field of the
\* CR unchanged.
StatusGuard(op, cr) ==
    CASE op = "submit" -> cr.status = DRAFT
      [] op \in {"approve", "reject"} -> cr.status = PENDING_APPROVAL
      [] op = "start_implementation" -> cr.status = APPROVED
      [] op = "complete_implementation" -> cr.status \in {APPROVED, IN_PROGRESS}
      [] op = "close" -> cr.status = IMPLEMENTED
      [] op = "rollback" -> cr.status \in {IMPLEMENTED, CLOSED}
      [] OTHER -> TRUE

C17_GuardViolationNoChange ==
    [][(call'.op /= "tick" /\ ~StatusGuard(call'.op, ent)) => ent' = ent]_vars

\* C18: for every actor, CR and status, can_access_cr equals the role table:
\* admin - the actor created the CR's project; requester - the actor is the
\* CR's requester and belongs to the project; implementer - the actor belongs
\* to the project and the status is Approved, InProgress, Implemented, Closed
\* or RolledBack; approver - the actor belongs to the project; any other or
\* missing role - false.
RoleTable(cr, requester, u) ==
    CASE Role[u] = "admin" -> u = ProjectCreator
      [] Role[u] = "requester" -> u = requester /\ u \in ProjectMembers
      [] Role[u] = "implementer" ->
            /\ u \in ProjectMembers
            /\ cr.status \in {APPROVED, IN_PROGRESS, IMPLEMENTED, CLOSED, ROLLED_BACK}
      [] Role[u] = "approver" -> u \in ProjectMembers
      [] OTHER -> FALSE

C18_AccessEqualsRoleTable ==
    \A u \in Accounts, r \in Accounts :
        can_access_cr(ent, r, u) <=> RoleTable(ent, r, u)

\* the implement handler has just started the implementation of the CR, which
\* the implementer of the project, its approver and its requester can access,
\* and outsiders, another requester and a second admin cannot
C18_Witness ==
    /\ out.op = "start" /\ ent.status = IN_PROGRESS
    /\ \A u \in {"req", "apr", "imp", "adm"} : can_access_cr(ent, ent.requester, u)
    /\ \A u \in {"oth", "xreq", "xapr", "ximp", "adm2", "aud", "nor"} :
          ~can_access_cr(ent, ent.requester, u)

\* C19: every approve, reject, implementation-complete, close and rollback
\* request that changes the CR makes exactly one call to the notification
\* gateway, and a request that leaves the CR unchanged makes none.
NotifyingOps == {"approve", "reject", "mark_implemented", "close", "rollback"}

C19_OneNotification ==
    [][/\ (out'.op \in NotifyingOps /\ ent' /= ent) => out'.notified = 1
       /\ (out'.op /= "none" /\ ent' = ent) => out'.notified = 0]_vars

\* C20: when the audit sink or the notification gateway fails during an
\* approve, reject, start, mark_implemented, close or rollback request, the
\* stored CR has the status that transition writes once the request has ended.
StatusWritten(op) ==
    CASE op = "approve" -> APPROVED
      [] op = "reject" -> REJECTED
      [] op = "start" -> IN_PROGRESS
      [] op = "mark_implemented" -> IMPLEMENTED
      [] op = "close" -> CLOSED
      [] op = "rollback" -> ROLLED_BACK
      [] OTHER -> None

C20_FailureKeepsTransition ==
    [][(out'.failed /= "none" /\ out'.op /= "edit")
       => ent'.status = StatusWritten(out'.op)]_vars

\* C23: each of submitted_at, approved_date, implementation_date, closed_date
\* and rolled_back_at is written at most once: once it is non-null a request
\* never changes it, and it is written only by the request of its own
\* transition; the requester never changes.
DateWriters ==
    [submitted_at |-> {"edit"}, approved_date |-> {"approve", "reject"},
     implementation_date |-> {"start"}, closed_date |-> {"close"},
     rolled_back_at |-> {"rollback"}]

C23_DatesWrittenOnce ==
    [][/\ \A f \in DOMAIN DateWriters :
            /\ ent[f] /= NoTime => ent'[f] = ent[f]
            /\ ent'[f] /= ent[f] => out'.op \in DateWriters[f]
       /\ ent'.requester = ent.requester]_vars

\* C24: is_deadline_warning_needed returns true exactly when the deadline is
\* set, the CR is neither marked breached nor already warned, and
\* 0 < time_until_deadline <= 24h; it returns false when the deadline has
\* passed or is more than 24h away.
C24_NeedsWarningIff ==
    \A c \in CRIds :
        is_deadline_warning_needed(crs[c], now)
        <=> /\ crs[c].deadline /= NoTime
            /\ ~crs[c].is_sla_breached /\ ~crs[c].sla_warning_sent
            /\ 0 < crs[c].deadline[1] - now
            /\ crs[c].deadline[1] - now <= WarningWindow

\* C25: for a CR with a timezone-naive deadline, check_sla_breach,
\* time_until_deadline and is_deadline_warning_needed each return, without
\* failing, what they return for the same instant stored as an aware UTC
\* deadline; check_sla_breach returns true and marks the CR breached iff the
\* deadline is set, now is after it and the CR was not marked breached.
AsAware(cr) == [cr EXCEPT !.tz = "aware"]

C25_NaiveDeadlineAsUTC ==
    \A c \in CRIds :
        LET cr == crs[c]
            chk == check_sla_breach(cr, now)
        IN  /\ ~chk.raised
            /\ chk.ret = check_sla_breach(AsAware(cr), now).ret
            /\ chk.cr.is_sla_breached = check_sla_breach(AsAware(cr), now).cr.is_sla_breached
            /\ time_until_deadline(cr, now) = time_until_deadline(AsAware(cr), now)
            /\ is_deadline_warning_needed(cr, now) = is_deadline_warning_needed(AsAware(cr), now)
            /\ chk.ret = ( /\ cr.deadline /= NoTime /\ ~cr.is_sla_breached
                           /\ now > cr.deadline[1] )

\* C26: a CR for which a warning was fired is never sent a breach
\* notification by a later sweep; over its whole life a CR receives at most
\* one sweep notification in total.
C26_OneSweepNotification ==
    \A c \in CRIds :
        /\ warnSent[c] >= 1 => breachSent[c] = 0
        /\ warnSent[c] + breachSent[c] <= 1

\* C27: deleting a project or a user changes the status of a CR only along
\* an edge of the lifecycle graph, never moves a Draft, PendingApproval,
\* Approved, InProgress, Rejected or RolledBack CR to Closed, and leaves
\* every Closed CR with closed_date and closed_by set.
C27_AdminRespectsLifecycle ==
    [][/\ ent'.status /= ent.status
          => <<ent.status, ent'.status>> \in LifecycleEdges
       /\ ent.status \in {DRAFT, PENDING_APPROVAL, APPROVED, IN_PROGRESS,
                           REJECTED, ROLLED_BACK}
          => ent'.status /= CLOSED
       /\ ent'.status = CLOSED
          => ent'.closed_date /= NoTime /\ ent'.closed_by /= None]_vars

\* C21: the CRs stored under one date prefix carry, in the order of their
\* creation, the numbers CR-<date>-0001, CR-<date>-0002, ... with no gap
\* and no duplicate, and the sequence starts again at 0001 for each date.
\* It holds in every interleaving of the create() requests, hence for a
\* single caller that stores each CR before generating the next number.
NumbersOfDay(d) == SelectSeq(numbers, LAMBDA x : x[1] = d)

C21_SequentialNumbers ==
    \A d \in 0..MaxDay :
        \A i \in 1..Len(NumbersOfDay(d)) : NumbersOfDay(d)[i] = <<d, 0, 0, 0, i>>

C21_Witness ==
    /\ numbers = << <<0, 0, 0, 0, 1>>, <<0, 0, 0, 0, 2>>, <<1, 0, 0, 0, 1>> >>
    /\ \A p \in Callers : held[p] = NoNumber

IsJobStep == sess' /= sess

C28_SweepVersusClose ==
    [][/\ \A c \in CRIds :
            warnSent'[c] > warnSent[c] \/ breachSent'[c] > breachSent[c]
            => crs[c].status \notin {CLOSED, ROLLED_BACK}
       /\ IsJobStep
          => \A c \in CRIds :
                /\ crs'[c].status = crs[c].status
                /\ crs'[c] = [crs[c] EXCEPT
                                !.is_sla_breached = crs'[c].is_sla_breached,
                                !.sla_warning_sent = crs'[c].sla_warning_sent]]_vars

\* C29: when two executions of the sweep overlap on a CR, at most one
\* warning and at most one breach notification is fired for it in total.
C29_AtMostOnceOverlapping ==
    \A c \in CRIds : warnSent[c] <= 1 /\ breachSent[c] <= 1

\* the second half of C28 on its own: a step of the sweep writes the two
\* SLA flags and no other committed column
C28_FlagsOnly ==
    [][IsJobStep
       => \A c \in CRIds :
             crs'[c] = [crs[c] EXCEPT !.is_sla_breached = crs'[c].is_sla_breached,
                                      !.sla_warning_sent = crs'[c].sla_warning_sent]]_vars

====
